---------------------------- MODULE Spec2Model ----------------------------
(***************************************************************************)
(* A model of cf_mainsite/crossfitscraper.py: the workout extractor        *)
(* (CrossFitWODScraper._extract_workout_content / parse_workout_data), the *)
(* CSV log (CSVLogger) and the orchestration of one run (main).            *)
(*                                                                         *)
(* Text is modelled character by character: a Python str is a sequence of  *)
(* one-character strings, so that substring tests, case folding, stripping *)
(* and the regular expressions are computed as the code computes them.     *)
(*                                                                         *)
(* A page is a flat sequence of sibling elements [tag, text]; every        *)
(* element is followed by a line break in the document, so get_text() is   *)
(* the elements' texts, each followed by "\n".  Tags: "p" (plain text),    *)
(* "strong" (bold), "h2" (heading) and "div.comment" (a div whose class    *)
(* matches "comment").  A text may hold line breaks of its own.            *)
(*                                                                         *)
(* The CSV file is modelled by the rows after its header, a timestamp by   *)
(* the number of the run that took it.                                     *)
(***************************************************************************)
EXTENDS Integers, Sequences, FiniteSets, TLC

VARIABLES
    page,           \* the markup of the fetched page (html)
    date_str,       \* the date code of the run (yymmdd)
    content,        \* the dict returned by _extract_workout_content
    workout,        \* the WorkoutData built by parse_workout_data
    pc,             \* the position of the run
    csv_rows,       \* the rows of the CSV file, after its header
    now,            \* the clock: datetime.datetime.now()
    overwrite_csv,  \* main's OVERWRITE_CSV setting
    csv_success,    \* main's csv_success
    trmnl_success,  \* main's trmnl_success
    attempts,       \* the sinks called so far in this run, in call order
    last_payload,   \* the last payload the webhook accepted
    outcome         \* the last message main logged about the run's result

mainVars == <<csv_rows, now, overwrite_csv, csv_success, trmnl_success,
              attempts, last_payload, outcome>>
vars == <<page, date_str, content, workout, pc, csv_rows, now, overwrite_csv,
          csv_success, trmnl_success, attempts, last_payload, outcome>>

-----------------------------------------------------------------------------
(* Python str primitives on sequences of characters                        *)

UpperLetters == <<"A","B","C","D","E","F","G","H","I","J","K","L","M","N","O","P","Q","R","S","T","U","V","W","X","Y","Z">>
LowerLetters == <<"a","b","c","d","e","f","g","h","i","j","k","l","m","n","o","p","q","r","s","t","u","v","w","x","y","z">>
Digits == {"0","1","2","3","4","5","6","7","8","9"}
Whitespace == {" ", "\n", "\t", "\r"}

UpperSet == {UpperLetters[i] : i \in 1..26}
LowerSet == {LowerLetters[i] : i \in 1..26}

IsUpperChar(c) == c \in UpperSet
IsLowerChar(c) == c \in LowerSet

\* str.lower() on one character
LowerChar(c) ==
    IF IsUpperChar(c)
    THEN LowerLetters[CHOOSE i \in 1..26 : UpperLetters[i] = c]
    ELSE c

\* str.lower()
Lower(s) == [i \in 1..Len(s) |-> LowerChar(s[i])]

\* p in s
Contains(s, p) ==
    \E i \in 0..(Len(s) - Len(p)) : \A k \in 1..Len(p) : s[i + k] = p[k]

\* any(p in s for p in ps), ps a sequence of patterns
ContainsAny(s, ps) == \E n \in 1..Len(ps) : Contains(s, ps[n])

\* s.startswith(p)
StartsWith(s, p) == Len(p) <= Len(s) /\ \A k \in 1..Len(p) : s[k] = p[k]

\* str.strip()
Strip(s) ==
    LET keep == {i \in 1..Len(s) : s[i] \notin Whitespace}
    IN  IF keep = {} THEN <<>>
        ELSE LET lo == CHOOSE i \in keep : \A j \in keep : i <= j
                 hi == CHOOSE i \in keep : \A j \in keep : j <= i
             IN  SubSeq(s, lo, hi)

\* str.isupper(): at least one cased character and no lowercase one
IsUpper(s) ==
    /\ \E i \in 1..Len(s) : IsUpperChar(s[i])
    /\ \A i \in 1..Len(s) : ~IsLowerChar(s[i])

\* str.istitle(): uppercase only after uncased, lowercase only after cased
IsTitle(s) ==
    LET cased(i) == IsUpperChar(s[i]) \/ IsLowerChar(s[i])
        prevCased(i) == i > 1 /\ cased(i - 1)
    IN  /\ \E i \in 1..Len(s) : cased(i)
        /\ \A i \in 1..Len(s) :
              /\ IsUpperChar(s[i]) => ~prevCased(i)
              /\ IsLowerChar(s[i]) => prevCased(i)

\* sep.join(parts)
RECURSIVE Join(_, _)
Join(parts, sep) ==
    IF parts = <<>> THEN <<>>
    ELSE IF Len(parts) = 1 THEN parts[1]
    ELSE parts[1] \o sep \o Join(Tail(parts), sep)

\* s.split('\n')
RECURSIVE SplitLines(_)
SplitLines(s) ==
    LET nl == {i \in 1..Len(s) : s[i] = "\n"}
    IN  IF nl = {} THEN <<s>>
        ELSE LET i == CHOOSE i \in nl : \A j \in nl : i <= j
             IN  <<SubSeq(s, 1, i - 1)>> \o SplitLines(SubSeq(s, i + 1, Len(s)))

\* s.replace('\n', ' | ').replace('\r', '')
RECURSIVE Flatten(_)
Flatten(s) ==
    IF s = <<>> THEN <<>>
    ELSE (IF s[1] = "\n" THEN <<" ","|"," ">>
          ELSE IF s[1] = "\r" THEN <<>>
          ELSE <<s[1]>>) \o Flatten(Tail(s))

\* seq[:n]
Take(seq, n) == SubSeq(seq, 1, IF Len(seq) < n THEN Len(seq) ELSE n)

\* list(dict.fromkeys(seq)): duplicates removed, first occurrences kept
RECURSIVE FromKeys(_)
FromKeys(seq) ==
    IF seq = <<>> THEN <<>>
    ELSE LET init == FromKeys(SubSeq(seq, 1, Len(seq) - 1))
             last == seq[Len(seq)]
         IN  IF \E i \in 1..Len(init) : init[i] = last
             THEN init ELSE Append(init, last)


-----------------------------------------------------------------------------
(* The phrase lists of _extract_workout_content                            *)

REST_DAY_DESCRIPTION == <<"R","e","s","t"," ","D","a","y"," ","-"," ","R","e","c","o","v","e","r","y"," ","a","n","d"," ","m","o","b","i","l","i","t","y"," ","w","o","r","k"," ","r","e","c","o","m","m","e","n","d","e","d">>

skip_phrases ==
    << <<"w","a","t","c","h"," ","n","o","w">>, <<"a","r","e"," ","l","i","v","e">>, <<"s","h","o","p">>, <<"b","u","y">>, <<"s","a","l","e">>, <<"c","l","i","c","k"," ","h","e","r","e">>,
       <<"s","u","b","s","c","r","i","b","e">> >>

title_keywords == << <<"g","a","m","e","s">>, <<"h","e","r","o">>, <<"b","e","n","c","h","m","a","r","k">> >>

skip_patterns ==
    << <<"w","o","r","k","o","u","t"," ","o","f"," ","t","h","e"," ","d","a","y">>, <<"w","o","d">>, <<"s","c","a","l","i","n","g">>, <<"s","t","i","m","u","l","u","s">>, <<"s","t","r","a","t","e","g","y">>,
       <<"c","o","a","c","h","i","n","g">>, <<"r","e","s","o","u","r","c","e","s">>, <<"p","o","s","t">>, <<"c","o","m","p","a","r","e">>, <<"i","n","t","e","r","m","e","d","i","a","t","e"," ","o","p","t","i","o","n">>,
       <<"b","e","g","i","n","n","e","r"," ","o","p","t","i","o","n">>, <<"c","o","m","m","e","n","t","s">> >>

workout_indicators ==
    << <<"f","o","r"," ","t","i","m","e",":">>, <<"a","m","r","a","p">>, <<"e","m","o","m">>, <<"r","o","u","n","d","s"," ","f","o","r"," ","t","i","m","e",":">>, <<"c","o","m","p","l","e","t","e",":">> >>

section_markers ==
    << <<"s","t","i","m","u","l","u","s">>, <<"s","c","a","l","i","n","g">>, <<"i","n","t","e","r","m","e","d","i","a","t","e"," ","o","p","t","i","o","n">>, <<"b","e","g","i","n","n","e","r"," ","o","p","t","i","o","n">>,
       <<"c","o","a","c","h","i","n","g">>, <<"r","e","s","o","u","r","c","e","s">>, <<"c","o","m","m","e","n","t","s">>, <<"p","o","s","t"," ","t","i","m","e">> >>

scaling_stop_markers ==
    << <<"i","n","t","e","r","m","e","d","i","a","t","e"," ","o","p","t","i","o","n",":">>, <<"b","e","g","i","n","n","e","r"," ","o","p","t","i","o","n",":">>, <<"c","o","a","c","h","i","n","g">>, <<"r","e","s","o","u","r","c","e","s">>,
       <<"s","t","i","m","u","l","u","s">> >>

option_types == << <<"i","n","t","e","r","m","e","d","i","a","t","e"," ","o","p","t","i","o","n",":">>, <<"b","e","g","i","n","n","e","r"," ","o","p","t","i","o","n",":">> >>

option_stop_markers ==
    << <<"o","p","t","i","o","n",":">>, <<"c","o","a","c","h","i","n","g">>, <<"r","e","s","o","u","r","c","e","s">>, <<"s","t","i","m","u","l","u","s">>, <<"c","o","m","m","e","n","t","s">> >>

stimulus_headers == << <<"s","t","i","m","u","l","u","s"," ","a","n","d"," ","s","t","r","a","t","e","g","y",":">>, <<"s","t","i","m","u","l","u","s",":">> >>

stimulus_stop_markers ==
    << <<"s","c","a","l","i","n","g",":">>, <<"i","n","t","e","r","m","e","d","i","a","t","e"," ","o","p","t","i","o","n",":">>, <<"b","e","g","i","n","n","e","r"," ","o","p","t","i","o","n",":">>, <<"c","o","a","c","h","i","n","g">>,
       <<"r","e","s","o","u","r","c","e","s">> >>

hero_indicators ==
    << <<"l","t",".">>, <<"l","i","e","u","t","e","n","a","n","t">>, <<"s","g","t",".">>, <<"s","e","r","g","e","a","n","t">>, <<"c","p","l",".">>, <<"c","o","r","p","o","r","a","l">>,
       <<"p","f","c",".">>, <<"p","r","i","v","a","t","e">>, <<"c","a","p","t","a","i","n">>, <<"m","a","j","o","r">>, <<"c","o","l","o","n","e","l">> >>

hero_phrases ==
    << <<"f","a","l","l","e","n">>, <<"k","i","l","l","e","d"," ","i","n"," ","a","c","t","i","o","n">>, <<"k","i","a">>, <<"m","e","m","o","r","i","a","l">>, <<"d","i","e","d">>,
       <<"g","a","v","e"," ","h","i","s"," ","l","i","f","e">>, <<"g","a","v","e"," ","h","e","r"," ","l","i","f","e">> >>

reference_phrases ==
    << <<"r","e","m","i","n","i","s","c","e","n","t"," ","o","f"," ","a"," ","h","e","r","o"," ","w","o","r","k","o","u","t">>, <<"s","i","m","i","l","a","r"," ","t","o">>, <<"l","i","k","e"," ","t","h","e"," ","h","e","r","o"," ","w","o","r","k","o","u","t">> >>

\* len(text) > 5 and len(text) <= 50 for bold text; len(text) <= 50 for headings
BoldMinLen == 5
BoldMaxLen == 50
HeadingMaxLen == 50
\* workout_lines[:10], movements[:8], 3 < len(movement) < 50
DescriptionMaxLines == 10
MovementsMax == 8
MovementMinLen == 3
MovementMaxLen == 50
\* range(i+1, min(i+10, len(lines))): the 9 lines after a section header
SectionWindow == 9

-----------------------------------------------------------------------------
(* Comment removal and text extraction                                     *)

\* soup.find_all(['div','section'], class_=re.compile('comment', re.I)) decomposed
DropCommentSections(pg) == SelectSeq(pg, LAMBDA e : e.tag # "div.comment")

\* re.compile(r'Comments on \d+', re.I).search(text)
MatchesCommentsOn(text) ==
    LET t == Lower(text)
        p == <<"c","o","m","m","e","n","t","s"," ","o","n"," ">>
    IN  \E i \in 0..(Len(t) - Len(p) - 1) :
            /\ \A k \in 1..Len(p) : t[i + k] = p[k]
            /\ t[i + Len(p) + 1] \in Digits

\* The element holding a "Comments on <n>" string is removed with all its
\* following siblings.  Later matches lie in the removed part.
DropCommentThread(pg) ==
    LET hits == {i \in 1..Len(pg) : MatchesCommentsOn(pg[i].text)}
    IN  IF hits = {} THEN pg
        ELSE SubSeq(pg, 1, (CHOOSE i \in hits : \A j \in hits : i <= j) - 1)

\* soup.get_text(): every element's text, each followed by a line break
RECURSIVE GetText(_)
GetText(pg) ==
    IF pg = <<>> THEN <<>>
    ELSE pg[1].text \o <<"\n">> \o GetText(Tail(pg))

-----------------------------------------------------------------------------
(* Title candidates                                                        *)

\* re.search(r'event\s+\d+', t)
MatchesEventNumber(t) ==
    LET p == <<"e","v","e","n","t">>
    IN  \E i \in 0..(Len(t) - Len(p)) :
            /\ \A k \in 1..Len(p) : t[i + k] = p[k]
            /\ \E j \in (i + Len(p) + 2)..Len(t) :
                   /\ t[j] \in Digits
                   /\ \A k \in (i + Len(p) + 1)..(j - 1) : t[k] \in Whitespace

\* Mutant: an "Event N" candidate is appended like the others
AddBoldTitle_NoPriority(potential_titles, raw) ==
    LET text == Strip(raw)
        low == Lower(text)
    IN  IF text # <<>> /\ Len(text) > BoldMinLen /\ Len(text) <= BoldMaxLen
             /\ ~ContainsAny(low, skip_phrases)
             /\ (\/ MatchesEventNumber(low)
                 \/ ContainsAny(low, title_keywords)
                 \/ IsUpper(text)
                 \/ /\ IsUpperChar(text[1])
                    /\ \A i \in 2..Len(text) : ~IsLowerChar(text[i]))
        THEN Append(potential_titles, text)
        ELSE potential_titles

\* Mutant: the upper length limit of a bold candidate is not tested
AddBoldTitle_NoLengthLimit(potential_titles, raw) ==
    LET text == Strip(raw)
        low == Lower(text)
    IN  IF text # <<>> /\ Len(text) > BoldMinLen
        THEN IF ContainsAny(low, skip_phrases) THEN potential_titles
             ELSE IF MatchesEventNumber(low) THEN <<text>> \o potential_titles
             ELSE IF ContainsAny(low, title_keywords)
                  THEN Append(potential_titles, text)
             ELSE IF \/ IsUpper(text)
                     \/ /\ IsUpperChar(text[1])
                        /\ \A i \in 2..Len(text) : ~IsLowerChar(text[i])
                  THEN Append(potential_titles, text)
             ELSE potential_titles
        ELSE potential_titles

\* One pass of the loop over strong/b tags
AddBoldTitle(potential_titles, raw) ==
    LET text == Strip(raw)
        low == Lower(text)
    IN  IF text # <<>> /\ Len(text) > BoldMinLen /\ Len(text) <= BoldMaxLen
        THEN IF ContainsAny(low, skip_phrases) THEN potential_titles
             ELSE IF MatchesEventNumber(low) THEN <<text>> \o potential_titles
             ELSE IF ContainsAny(low, title_keywords)
                  THEN Append(potential_titles, text)
             ELSE IF \/ IsUpper(text)
                     \/ /\ IsUpperChar(text[1])
                        /\ \A i \in 2..Len(text) : ~IsLowerChar(text[i])
                  THEN Append(potential_titles, text)
             ELSE potential_titles
        ELSE potential_titles

\* re.match(r'^[A-Z][a-z]+$', text)
MatchesCapitalizedWord(text) ==
    /\ Len(text) >= 2
    /\ IsUpperChar(text[1])
    /\ \A i \in 2..Len(text) : IsLowerChar(text[i])

\* One pass of the loop over h1/h2/h3 tags
AddHeadingTitle(potential_titles, raw) ==
    LET text == Strip(raw)
        low == Lower(text)
    IN  IF text # <<>> /\ Len(text) <= HeadingMaxLen /\ ~ContainsAny(low, skip_patterns)
        THEN IF \/ IsUpper(text) \/ IsTitle(text)
                \/ MatchesCapitalizedWord(text)
                \/ Contains(low, <<"g","a","m","e","s">>)
                \/ Contains(low, <<"e","v","e","n","t">>)
             THEN Append(potential_titles, text)
             ELSE potential_titles
        ELSE potential_titles

\* The loop over the strong/b tags in document order
RECURSIVE BoldTitles(_, _)
BoldTitles(pg, potential_titles) ==
    IF pg = <<>> THEN potential_titles
    ELSE BoldTitles(Tail(pg),
                    IF pg[1].tag = "strong"
                    THEN AddBoldTitle(potential_titles, pg[1].text)
                    ELSE potential_titles)

\* The loop over the headings in document order, after the bold loop
RECURSIVE HeadingTitles(_, _)
HeadingTitles(pg, potential_titles) ==
    IF pg = <<>> THEN potential_titles
    ELSE HeadingTitles(Tail(pg),
                       IF pg[1].tag = "h2"
                       THEN AddHeadingTitle(potential_titles, pg[1].text)
                       ELSE potential_titles)

PotentialTitles(pg) == HeadingTitles(pg, BoldTitles(pg, <<>>))

-----------------------------------------------------------------------------
(* Workout body and movements                                              *)

\* The loop over the lines of the page: skip empty and "commented on:" lines,
\* start collecting at the first indicator line, stop (break) at the first
\* section marker, drop lines starting with "**".  The loop also computes
\* workout_title_candidate, which nothing reads.
RECURSIVE CollectWorkoutLines(_, _, _, _)
CollectWorkoutLines(lines, i, found_workout, workout_lines) ==
    IF i > Len(lines) THEN workout_lines
    ELSE LET line == Strip(lines[i])
             low == Lower(line)
         IN  IF line = <<>> \/ Contains(low, <<"c","o","m","m","e","n","t","e","d"," ","o","n",":">>)
             THEN CollectWorkoutLines(lines, i + 1, found_workout, workout_lines)
             ELSE IF found_workout \/ ContainsAny(low, workout_indicators)
             THEN IF ContainsAny(low, section_markers)
                  THEN workout_lines
                  ELSE CollectWorkoutLines(lines, i + 1, TRUE,
                           IF StartsWith(line, <<"*","*">>) THEN workout_lines
                           ELSE Append(workout_lines, line))
             ELSE CollectWorkoutLines(lines, i + 1, FALSE, workout_lines)

WorkoutLines(lines) == CollectWorkoutLines(lines, 1, FALSE, <<>>)

\* Mutant: the slice to the first 10 lines is missing
Description_NoTruncation(workout_lines) == Join(workout_lines, <<"\n">>)

\* '\n'.join(workout_lines[:10]), '' when nothing was collected
Description(workout_lines) == Join(Take(workout_lines, DescriptionMaxLines), <<"\n">>)

IsNameChar(c) == IsUpperChar(c) \/ IsLowerChar(c) \/ c = "-" \/ c \in Whitespace

\* The end (exclusive) of the maximal run of characters of chars from i:
\* what a greedy \d+ or \s+ consumes
RECURSIVE RunEnd(_, _, _)
RunEnd(s, i, chars) ==
    IF i <= Len(s) /\ s[i] \in chars THEN RunEnd(s, i + 1, chars) ELSE i

\* ([a-zA-Z\-\s]+?)(?=\n|,|$) from q: the end (exclusive) of the shortest
\* non-empty run of name characters followed by "\n", "," or the end; 0 if none
NameEnd(s, q) ==
    LET ends == {e \in (q + 1)..(Len(s) + 1) :
                    /\ \A k \in q..(e - 1) : IsNameChar(s[k])
                    /\ (e = Len(s) + 1 \/ s[e] \in {"\n", ","})}
    IN  IF ends = {} THEN 0 ELSE CHOOSE e \in ends : \A f \in ends : e <= f

\* One attempt of r'(\d+(?:,\d+)?(?:-meter|-mile)?)\s+([a-zA-Z\-\s]+?)(?=\n|,|$)'
\* at position i: [ok, qty, name, end].  \d+ and the optional groups are
\* greedy and no shorter choice of them can match; \s+ gives back characters
\* to the name when the name cannot start after the whole whitespace run.
MatchMovementAt(s, i) ==
    LET fail == [ok |-> FALSE, qty |-> <<>>, name |-> <<>>, end |-> i]
        d1 == RunEnd(s, i, Digits)
        d2 == IF d1 + 1 <= Len(s) /\ s[d1] = "," /\ s[d1 + 1] \in Digits
              THEN RunEnd(s, d1 + 1, Digits) ELSE d1
        rest == SubSeq(s, d2, Len(s))
        p == IF StartsWith(rest, <<"-","m","e","t","e","r">>) THEN d2 + 6
             ELSE IF StartsWith(rest, <<"-","m","i","l","e">>) THEN d2 + 5
             ELSE d2
        w == RunEnd(s, p, Whitespace)
        starts == {q \in (p + 1)..w : NameEnd(s, q) # 0}
    IN  IF i > Len(s) \/ s[i] \notin Digits THEN fail
        ELSE IF starts = {} THEN fail
        ELSE LET q == CHOOSE x \in starts : \A y \in starts : y <= x
                 e == NameEnd(s, q)
             IN  [ok |-> TRUE, qty |-> SubSeq(s, i, p - 1),
                  name |-> SubSeq(s, q, e - 1), end |-> e]

\* re.findall over one line: the non-overlapping matches, left to right
RECURSIVE FindMovements(_, _)
FindMovements(s, i) ==
    IF i > Len(s) THEN <<>>
    ELSE LET m == MatchMovementAt(s, i)
         IN  IF m.ok THEN <<m>> \o FindMovements(s, m.end)
             ELSE FindMovements(s, i + 1)

\* f"{match[0]} {match[1].strip()}", kept when 3 < len(movement) < 50
RECURSIVE KeptMovements(_)
KeptMovements(matches) ==
    IF matches = <<>> THEN <<>>
    ELSE LET movement == matches[1].qty \o <<" ">> \o Strip(matches[1].name)
         IN  (IF MovementMinLen < Len(movement) /\ Len(movement) < MovementMaxLen
              THEN <<movement>> ELSE <<>>) \o KeptMovements(Tail(matches))

\* The loop over workout_lines appending to movements
RECURSIVE AllMovements(_)
AllMovements(workout_lines) ==
    IF workout_lines = <<>> THEN <<>>
    ELSE KeptMovements(FindMovements(workout_lines[1], 1))
             \o AllMovements(Tail(workout_lines))

\* Mutant: the list is cut to 8 without removing duplicates
Movements_NoDedup(workout_lines) == Take(AllMovements(workout_lines), MovementsMax)

\* list(dict.fromkeys(movements))[:8]
Movements(workout_lines) == Take(FromKeys(AllMovements(workout_lines)), MovementsMax)

-----------------------------------------------------------------------------
(* Scaling and stimulus sections                                           *)

\* The window loop after a section header at line i: the stripped lines
\* i+1 .. min(i+9, len(lines)), empty lines skipped, ended by the first line
\* holding a stop marker, lines starting with "**" dropped
RECURSIVE CollectWindow(_, _, _, _, _)
CollectWindow(lines, j, last, stops, acc) ==
    IF j > last THEN acc
    ELSE LET next_line == Strip(lines[j])
         IN  IF next_line = <<>>
             THEN CollectWindow(lines, j + 1, last, stops, acc)
             ELSE IF ContainsAny(Lower(next_line), stops) THEN acc
             ELSE CollectWindow(lines, j + 1, last, stops,
                      IF StartsWith(next_line, <<"*","*">>) THEN acc
                      ELSE Append(acc, next_line))

SectionBody(lines, i, stops) ==
    CollectWindow(lines, i + 1,
                  IF i + SectionWindow < Len(lines) THEN i + SectionWindow ELSE Len(lines),
                  stops, <<>>)

\* Method 1: the body of the first line holding "scaling:"
ScalingSection(lines) ==
    LET hits == {i \in 1..Len(lines) : Contains(Lower(lines[i]), <<"s","c","a","l","i","n","g",":">>)}
    IN  IF hits = {} THEN <<>>
        ELSE SectionBody(lines, CHOOSE i \in hits : \A j \in hits : i <= j,
                         scaling_stop_markers)

\* Method 2, one option type: every line holding it, with its body, kept when
\* the body is not empty
RECURSIVE OptionBlocks(_, _, _)
OptionBlocks(lines, i, option_type) ==
    IF i > Len(lines) THEN <<>>
    ELSE (IF Contains(Lower(lines[i]), option_type)
          THEN LET option_text == <<lines[i]>> \o SectionBody(lines, i, option_stop_markers)
               IN  IF Len(option_text) > 1
                   THEN <<Join(option_text, <<"\n">>)>> ELSE <<>>
          ELSE <<>>) \o OptionBlocks(lines, i + 1, option_type)

\* Mutant: one pass over the lines, taking a block of either type as it comes
RECURSIVE AllOptionBlocks_DocumentOrder(_, _)
AllOptionBlocks_DocumentOrder(lines, types) ==
    IF lines = <<>> \/ types = <<>> THEN <<>>
    ELSE LET n == Len(lines)
             blocksAt(i) ==
                 IF \E k \in 1..Len(types) : Contains(Lower(lines[i]), types[k])
                 THEN LET option_text ==
                              <<lines[i]>> \o SectionBody(lines, i, option_stop_markers)
                      IN  IF Len(option_text) > 1
                          THEN <<Join(option_text, <<"\n">>)>> ELSE <<>>
                 ELSE <<>>
             upTo[i \in 0..n] == IF i = 0 THEN <<>> ELSE upTo[i - 1] \o blocksAt(i)
         IN  upTo[n]

\* The loop over option_types
RECURSIVE AllOptionBlocks(_, _)
AllOptionBlocks(lines, types) ==
    IF types = <<>> THEN <<>>
    ELSE OptionBlocks(lines, 1, types[1]) \o AllOptionBlocks(lines, Tail(types))

ScalingParts(lines) == ScalingSection(lines) \o AllOptionBlocks(lines, option_types)

\* '\n\n'.join(scaling_parts)
Scaling(lines) == Join(ScalingParts(lines), <<"\n","\n">>)

\* ' '.join(stimulus_lines) for the first stimulus header
Stimulus(lines) ==
    LET hits == {i \in 1..Len(lines) : ContainsAny(Lower(lines[i]), stimulus_headers)}
    IN  IF hits = {} THEN <<>>
        ELSE Join(SectionBody(lines, CHOOSE i \in hits : \A j \in hits : i <= j,
                              stimulus_stop_markers),
                  <<" ">>)

-----------------------------------------------------------------------------
(* Hero classification and the extractor                                   *)

\* Mutant: the reference-only guard is missing
IsHeroWorkout_NoReferenceGuard(page_text) ==
    ContainsAny(page_text, hero_indicators) /\ ContainsAny(page_text, hero_phrases)

IsHeroWorkout(page_text) ==
    LET has_military_rank == ContainsAny(page_text, hero_indicators)
        has_memorial_language == ContainsAny(page_text, hero_phrases)
        is_reference_only == ContainsAny(page_text, reference_phrases)
    IN  has_military_rank /\ has_memorial_language /\ ~is_reference_only

\* The soup after the two comment-removal loops
Cleaned(pg) == DropCommentThread(DropCommentSections(pg))

\* Mutant: the test compares against the capitalised phrase
IsRestDay_CaseSensitive(page_text) == Contains(page_text, <<"R","e","s","t"," ","D","a","y">>)

IsRestDay(page_text) == Contains(page_text, <<"r","e","s","t"," ","d","a","y">>)

\* Mutant: the title is left empty when there is no candidate
TitleOf_NoDefault(potential_titles, ds) ==
    IF potential_titles # <<>> THEN potential_titles[1] ELSE <<>>

\* Mutant: a hero workout does not set the named flag
IsNamedWorkout_TitleOnly(potential_titles, hero) == potential_titles # <<>>

\* content['title']: the first candidate, else the default date_str
TitleOf(potential_titles, ds) ==
    IF potential_titles # <<>> THEN potential_titles[1] ELSE ds

\* content['is_named_workout']: set with the title, and again for a hero workout
IsNamedWorkout(potential_titles, hero) == (potential_titles # <<>>) \/ hero

\* Mutant: the rest-day return comes after the title has been chosen
ExtractWorkoutContent_TitleOnRestDay(pg, ds) ==
    LET soup == Cleaned(pg)
        all_text == GetText(soup)
        page_text == Lower(all_text)
        lines == SplitLines(all_text)
        potential_titles == PotentialTitles(soup)
        workout_lines == WorkoutLines(lines)
        hero == IsHeroWorkout(page_text)
    IN  IF IsRestDay(page_text)
        THEN [title |-> TitleOf(potential_titles, ds),
              description |-> REST_DAY_DESCRIPTION,
              movements |-> <<>>, scaling |-> <<>>, stimulus |-> <<>>,
              is_named_workout |-> potential_titles # <<>>,
              is_hero_workout |-> FALSE,
              is_rest_day |-> TRUE]
        ELSE [title |-> TitleOf(potential_titles, ds),
              description |-> Description(workout_lines),
              movements |-> Movements(workout_lines),
              scaling |-> Scaling(lines),
              stimulus |-> Stimulus(lines),
              is_named_workout |-> IsNamedWorkout(potential_titles, hero),
              is_hero_workout |-> hero,
              is_rest_day |-> FALSE]

\* CrossFitWODScraper._extract_workout_content(soup, date_str)
ExtractWorkoutContent(pg, ds) ==
    LET soup == Cleaned(pg)
        all_text == GetText(soup)
        page_text == Lower(all_text)
        lines == SplitLines(all_text)
        potential_titles == PotentialTitles(soup)
        workout_lines == WorkoutLines(lines)
        hero == IsHeroWorkout(page_text)
    IN  IF IsRestDay(page_text)
        THEN [title |-> ds, description |-> REST_DAY_DESCRIPTION,
              movements |-> <<>>, scaling |-> <<>>, stimulus |-> <<>>,
              is_named_workout |-> FALSE, is_hero_workout |-> FALSE,
              is_rest_day |-> TRUE]
        ELSE [title |-> TitleOf(potential_titles, ds),
              description |-> Description(workout_lines),
              movements |-> Movements(workout_lines),
              scaling |-> Scaling(lines),
              stimulus |-> Stimulus(lines),
              is_named_workout |-> IsNamedWorkout(potential_titles, hero),
              is_hero_workout |-> hero,
              is_rest_day |-> FALSE]

-----------------------------------------------------------------------------
(* WorkoutData and parse_workout_data                                      *)

MonthNames ==
    << <<"J","a","n","u","a","r","y">>, <<"F","e","b","r","u","a","r","y">>, <<"M","a","r","c","h">>, <<"A","p","r","i","l">>, <<"M","a","y">>, <<"J","u","n","e">>, <<"J","u","l","y">>,
       <<"A","u","g","u","s","t">>, <<"S","e","p","t","e","m","b","e","r">>, <<"O","c","t","o","b","e","r">>, <<"N","o","v","e","m","b","e","r">>, <<"D","e","c","e","m","b","e","r">> >>

DigitValue(c) == CHOOSE n \in 0..9 : <<"0","1","2","3","4","5","6","7","8","9">>[n + 1] = c

\* strptime(date_str, "%y%m%d").strftime("%B %d, %Y"); %y below 69 is 20yy
FormatDate(ds) ==
    LET yy == 10 * DigitValue(ds[1]) + DigitValue(ds[2])
        mm == 10 * DigitValue(ds[3]) + DigitValue(ds[4])
    IN  MonthNames[mm] \o <<" ", ds[5], ds[6], ",", " ">>
            \o (IF yy < 69 THEN <<"2","0">> ELSE <<"1","9">>) \o <<ds[1], ds[2]>>

\* The WorkoutData parse_workout_data builds from the extracted dict
WorkoutData(c, ds, clock) ==
    [title |-> c.title, description |-> c.description, movements |-> c.movements,
     scaling |-> c.scaling, stimulus |-> c.stimulus,
     date |-> FormatDate(ds), date_code |-> ds,
     is_named_workout |-> c.is_named_workout,
     is_hero_workout |-> c.is_hero_workout,
     is_rest_day |-> c.is_rest_day,
     scraped_at |-> clock]

\* str(bool)
BoolStr(b) == IF b THEN <<"T","r","u","e">> ELSE <<"F","a","l","s","e">>

\* WorkoutData.to_csv_row
to_csv_row(w) ==
    [date_code |-> w.date_code, date |-> w.date, title |-> w.title,
     is_named_workout |-> BoolStr(w.is_named_workout),
     is_hero_workout |-> BoolStr(w.is_hero_workout),
     is_rest_day |-> BoolStr(w.is_rest_day),
     description |-> Flatten(w.description),
     movements |-> Join(w.movements, <<" ","|"," ">>),
     scaling |-> Flatten(w.scaling),
     stimulus |-> Flatten(w.stimulus),
     scraped_at |-> w.scraped_at,
     url |-> <<"h","t","t","p","s",":","/","/","w","w","w",".","c","r","o","s","s","f","i","t",".","c","o","m","/">> \o w.date_code]

\* Before the extractor has run there is no dict and no record
NoContent ==
    [title |-> <<>>, description |-> <<>>, movements |-> <<>>, scaling |-> <<>>,
     stimulus |-> <<>>, is_named_workout |-> FALSE, is_hero_workout |-> FALSE,
     is_rest_day |-> FALSE]

NoWorkout == WorkoutData(NoContent, <<"0","0","0","1","0","1">>, 0)

-----------------------------------------------------------------------------
(* The two steps of parse_workout_data                                     *)

\* workout_content = self._extract_workout_content(soup, date_str)
Extract ==
    /\ pc = "input"
    /\ content' = ExtractWorkoutContent(page, date_str)
    /\ pc' = "extracted"
    /\ UNCHANGED <<page, date_str, workout, mainVars>>

\* return WorkoutData(...)
BuildRecord ==
    /\ pc = "extracted"
    /\ workout' = WorkoutData(content, date_str, now)
    /\ pc' = "parsed"
    /\ UNCHANGED <<page, date_str, content, mainVars>>

-----------------------------------------------------------------------------
(* Inputs                                                                  *)

P(text) == [tag |-> "p", text |-> text]
B(text) == [tag |-> "strong", text |-> text]
H(text) == [tag |-> "h2", text |-> text]
C(text) == [tag |-> "div.comment", text |-> text]

\* All pages of at most n elements drawn from vocab
PagesOver(vocab, n) == UNION {[1..k -> vocab] : k \in 0..n}

DateCodes == { <<"2","5","0","7","0","4">>, <<"9","9","1","2","3","1">> }

MaxClassifyElems == 3
MaxTitleElems == 3
MaxBodyElems == 3
MaxScalingElems == 3

ClassifyVocab ==
    { P(<<"T","o","d","a","y"," ","i","s"," ","a"," ","R","e","s","t"," ","D","a","y">>),
      P(<<"S","g","t","."," ","S","m","i","t","h",","," ","k","i","l","l","e","d"," ","i","n"," ","a","c","t","i","o","n">>),
      P(<<"H","o","n","o","r","i","n","g"," ","C","a","p","t","a","i","n"," ","R","o","e">>),
      P(<<"I","n"," ","m","e","m","o","r","i","a","l">>),
      P(<<"T","h","i","s"," ","i","s"," ","s","i","m","i","l","a","r"," ","t","o"," ","M","u","r","p","h">>),
      B(<<"M","U","R","P","H"," ","H","E","R","O">>),
      H(<<"F","r","a","n">>),
      P(<<"F","o","r"," ","t","i","m","e",":","\n","2","1"," ","T","h","r","u","s","t","e","r","s","\n","S","c","a","l","i","n","g",":","\n","U","s","e"," ","l","e","s","s"," ","w","e","i","g","h","t","\n","S","t","i","m","u","l","u","s",":","\n","G","o"," ","f","a","s","t">>),
      C(<<"S","g","t","."," ","R","o","e"," ","d","i","e","d"," ","o","n"," ","a"," ","r","e","s","t"," ","d","a","y">>),
      P(<<"C","o","m","m","e","n","t","s"," ","o","n"," ","2","5","0","7","0","4">>) }

TitleVocab ==
    { B(<<"H","E","A","V","Y"," ","D","A","Y">>),
      B(<<"G","a","m","e","s"," ","E","v","e","n","t"," ","3">>),
      B(<<"E","V","E","N","T"," "," ","1","2">>),
      B(<<"S","h","o","p"," ","t","h","e"," ","E","V","E","N","T"," ","1"," ","s","a","l","e">>),
      B(<<"B","e","n","c","h","m","a","r","k"," ","F","r","a","n">>),
      B(<<"G","R","A","C","E">>),
      B(<<"A"," ","L","O","N","G"," ","W","O","R","K","O","U","T"," ","N","A","M","E"," ","O","F"," ","E","X","A","C","T","L","Y"," ","F","I","F","T","Y"," ","C","H","A","R","A","C","T","E","R","S",".",".",".">>),
      B(<<"A"," ","L","O","N","G"," ","W","O","R","K","O","U","T"," ","N","A","M","E"," ","O","F"," ","F","I","F","T","Y","-","O","N","E"," ","C","H","A","R","A","C","T","E","R","S"," ","I","N"," ","A","L","L",".">>),
      H(<<"M","u","r","p","h">>),
      H(<<"G","R","A","C","E">>),
      P(<<"F","o","r"," ","t","i","m","e",":","\n","3","0"," ","C","l","e","a","n"," ","a","n","d"," ","J","e","r","k","s">>) }

BodyVocab ==
    { P(<<"F","o","r"," ","t","i","m","e",":">>),
      P(<<"1","0"," ","a",","," ","2","0"," ","b",","," ","3","0"," ","c","\n","4","0"," ","d",","," ","5","0"," ","e","\n","t","h","e","n"," ","r","e","s","t","\n","1",",","0","0","0","-","m","e","t","e","r"," ","r","o","w","\n","g","o">>),
      P(<<"6","0"," ","f",","," ","2","0"," ","b",","," ","7","0"," ","g","\n","8","0"," ","h","\n","1","0"," ","a","\n","9","0"," "," ",","," ","1","5"," ","j","\n","e","n","d">>),
      P(<<"*","*","N","o","t","e","s","*","*">>),
      P(<<"P","o","s","t"," ","t","i","m","e"," ","t","o"," ","c","o","m","m","e","n","t","s">>),
      P(<<"B","o","b"," ","c","o","m","m","e","n","t","e","d"," ","o","n",":"," ","9","9"," ","w","o","w">>) }

ScalingVocab ==
    { P(<<"I","n","t","e","r","m","e","d","i","a","t","e"," ","O","p","t","i","o","n",":","\n","3"," ","r","o","u","n","d","s">>),
      P(<<"B","e","g","i","n","n","e","r"," ","O","p","t","i","o","n",":","\n","2"," ","r","o","u","n","d","s","\n","e","a","s","y">>),
      P(<<"I","n","t","e","r","m","e","d","i","a","t","e"," ","O","p","t","i","o","n",":">>),
      P(<<"S","c","a","l","i","n","g",":","\n","G","o"," ","l","i","g","h","t","e","r">>),
      P(<<"S","t","i","m","u","l","u","s",":","\n","F","a","s","t">>),
      P(<<"*","*","C","o","a","c","h","i","n","g"," ","c","u","e","s","*","*">>),
      P(<<"\n","\n","\n","\n","\n","\n","\n","\n">>) }

InitMain ==
    /\ csv_rows = <<>>
    /\ now = 0
    /\ overwrite_csv = FALSE
    /\ csv_success = FALSE
    /\ trmnl_success = FALSE
    /\ attempts = <<>>
    /\ last_payload = <<>>
    /\ outcome = "none"

\* The extractor applied to one page
InitExtract(pages) ==
    /\ page \in pages
    /\ date_str \in DateCodes
    /\ content = NoContent
    /\ workout = NoWorkout
    /\ pc = "input"
    /\ InitMain

NextExtract == Extract \/ BuildRecord

SpecClassify == InitExtract(PagesOver(ClassifyVocab, MaxClassifyElems)) /\ [][NextExtract]_vars
SpecTitle == InitExtract(PagesOver(TitleVocab, MaxTitleElems)) /\ [][NextExtract]_vars
SpecBody == InitExtract(PagesOver(BodyVocab, MaxBodyElems)) /\ [][NextExtract]_vars
SpecScaling == InitExtract(PagesOver(ScalingVocab, MaxScalingElems)) /\ [][NextExtract]_vars

-----------------------------------------------------------------------------
(* CSVLogger: the file is modelled by its rows after the header.  A read  *)
(* of the file may raise (an OSError, or a csv.Error such as a field       *)
(* longer than the reader's field size limit); read_ok tells whether the   *)
(* read of workout_exists went through.                                    *)

\* CSVLogger.workout_exists: an exception while reading is caught and the
\* answer is then False
workout_exists(rows, date_code, read_ok) ==
    read_ok /\ \E i \in 1..Len(rows) : rows[i].date_code = date_code

\* Mutant: the rewrite puts the new row in place of every row
update_existing_workout_EveryRow(rows, w) ==
    [i \in 1..Len(rows) |-> to_csv_row(w)]

\* CSVLogger._update_existing_workout: the rows written back
update_existing_workout(rows, w) ==
    [i \in 1..Len(rows) |->
        IF rows[i].date_code = w.date_code THEN to_csv_row(w) ELSE rows[i]]

\* CSVLogger.log_workout when nothing reaches its except clause: the rows
\* afterwards
log_workout(rows, w, overwrite, read_ok) ==
    IF ~overwrite /\ workout_exists(rows, w.date_code, read_ok) THEN rows
    ELSE IF overwrite /\ workout_exists(rows, w.date_code, read_ok)
         THEN update_existing_workout(rows, w)
    ELSE Append(rows, to_csv_row(w))

\* CSVLogger.log_workout when a file operation raises into its except clause
\* (it then returns False): nothing written, or, when the rewrite of
\* _update_existing_workout fails after the file was opened for writing,
\* only the first rows written.  The skip path opens nothing for writing and
\* cannot fail.
FailedWrites(rows, w, overwrite, read_ok) ==
    IF ~overwrite /\ workout_exists(rows, w.date_code, read_ok) THEN {}
    ELSE IF overwrite /\ workout_exists(rows, w.date_code, read_ok)
         THEN {rows} \cup
              {SubSeq(update_existing_workout(rows, w), 1, k) : k \in 0..(Len(rows) - 1)}
    ELSE {rows}

-----------------------------------------------------------------------------
(* main: one run of the script after another                               *)

MaxRuns == 3

MainPages ==
    { << P(<<"F","o","r"," ","t","i","m","e",":","\n","2","1"," ","T","h","r","u","s","t","e","r","s">>) >>,
      << B(<<"M","U","R","P","H"," ","H","E","R","O">>), P(<<"F","o","r"," ","t","i","m","e",":","\n","1","0","0"," ","P","u","l","l","-","u","p","s">>) >>,
      << P(<<"R","e","s","t"," ","D","a","y">>) >> }

\* The payload of TRMNLWebhookSender.send_workout_data
Payload(w, clock) ==
    [workout_title |-> w.title, workout_date |-> w.date,
     workout_description |-> w.description, workout_movements |-> w.movements,
     workout_scaling |-> w.scaling, workout_stimulus |-> w.stimulus,
     is_named_workout |-> w.is_named_workout,
     is_hero_workout |-> w.is_hero_workout,
     is_rest_day |-> w.is_rest_day,
     last_updated |-> clock, date_code |-> w.date_code]

\* A run starts: the environment is read and the CSVLogger is built.  Without
\* TRMNL_WEBHOOK_URL main returns at once.
MainStart ==
    /\ pc = "start"
    /\ now < MaxRuns
    /\ now' = now + 1
    /\ \/ /\ pc' = "done"
          /\ outcome' = "TRMNL_WEBHOOK_URL environment variable not set"
          /\ UNCHANGED <<date_str, overwrite_csv>>
       \/ /\ pc' = "fetch"
          /\ date_str' \in DateCodes
          /\ overwrite_csv' \in BOOLEAN
          /\ UNCHANGED outcome
    /\ UNCHANGED <<page, content, workout, csv_rows, csv_success, trmnl_success,
                   attempts, last_payload>>

\* scraper.fetch_workout_page: the page, or a RequestException that main's
\* except clause reports
Fetch ==
    /\ pc = "fetch"
    /\ \/ /\ page' \in MainPages
          /\ pc' = "input"
          /\ UNCHANGED outcome
       \/ /\ pc' = "done"
          /\ outcome' = "Error processing workout"
          /\ UNCHANGED page
    /\ UNCHANGED <<date_str, content, workout, csv_rows, now, overwrite_csv,
                   csv_success, trmnl_success, attempts, last_payload>>

\* csv_success = csv_logger.log_workout(workout, overwrite=overwrite_csv)
LogWorkout ==
    /\ pc = "parsed"
    /\ \E read_ok \in BOOLEAN :
          \/ /\ csv_rows' = log_workout(csv_rows, workout, overwrite_csv, read_ok)
             /\ csv_success' = TRUE
          \/ /\ csv_rows' \in FailedWrites(csv_rows, workout, overwrite_csv, read_ok)
             /\ csv_success' = FALSE
    /\ attempts' = Append(attempts, "csv")
    /\ pc' = "logged"
    /\ UNCHANGED <<page, date_str, content, workout, now, overwrite_csv, trmnl_success,
                   last_payload, outcome>>

\* Mutant: the notification is sent only after a successful log write
Send_OnlyAfterLogSuccess ==
    /\ pc = "logged"
    /\ csv_success
    /\ trmnl_success' \in BOOLEAN
    /\ last_payload' = IF trmnl_success' THEN <<Payload(workout, now)>> ELSE last_payload
    /\ attempts' = Append(attempts, "trmnl")
    /\ pc' = "sent"
    /\ UNCHANGED <<page, date_str, content, workout, csv_rows, now, overwrite_csv,
                   csv_success, outcome>>

\* trmnl_success = sender.send_workout_data(workout): the post is accepted,
\* or a RequestException is caught and False returned
Send ==
    /\ pc = "logged"
    /\ \/ /\ trmnl_success' = TRUE
          /\ last_payload' = <<Payload(workout, now)>>
       \/ /\ trmnl_success' = FALSE
          /\ UNCHANGED last_payload
    /\ attempts' = Append(attempts, "trmnl")
    /\ pc' = "sent"
    /\ UNCHANGED <<page, date_str, content, workout, csv_rows, now, overwrite_csv, csv_success,
                   outcome>>

\* The message of the closing if/elif chain of main
ReportMessage(csv_ok, trmnl_ok) ==
    IF csv_ok /\ trmnl_ok THEN "Successfully processed workout"
    ELSE IF csv_ok THEN "CSV logged successfully but TRMNL update failed"
    ELSE IF trmnl_ok THEN "TRMNL updated successfully but CSV logging failed"
    ELSE "Both CSV logging and TRMNL update failed"

\* get_workout_stats (which only reads the file) and the closing report
Report ==
    /\ pc = "sent"
    /\ outcome' = ReportMessage(csv_success, trmnl_success)
    /\ pc' = "done"
    /\ UNCHANGED <<page, date_str, content, workout, csv_rows, now, overwrite_csv, csv_success,
                   trmnl_success, attempts, last_payload>>

\* The script is started again (one process per run): only the CSV file, the
\* webhook's last payload and the clock outlive a run
NextRun ==
    /\ pc = "done"
    /\ now < MaxRuns
    /\ pc' = "start"
    /\ page' = <<>>
    /\ date_str' = NoWorkout.date_code
    /\ content' = NoContent
    /\ workout' = NoWorkout
    /\ overwrite_csv' = FALSE
    /\ csv_success' = FALSE
    /\ trmnl_success' = FALSE
    /\ attempts' = <<>>
    /\ outcome' = "none"
    /\ UNCHANGED <<csv_rows, now, last_payload>>

Init ==
    /\ page = <<>>
    /\ date_str = NoWorkout.date_code
    /\ content = NoContent
    /\ workout = NoWorkout
    /\ pc = "start"
    /\ InitMain

Next ==
    \/ MainStart
    \/ Fetch
    \/ Extract
    \/ BuildRecord
    \/ LogWorkout
    \/ Send
    \/ Report
    \/ NextRun

Spec == Init /\ [][Next]_vars

-----------------------------------------------------------------------------
(* Properties of the extractor                                             *)

\* page_text and lines of the page under extraction
PageText == Lower(GetText(Cleaned(page)))
PageLines == SplitLines(GetText(Cleaned(page)))
Soup == Cleaned(page)

\* C1: a page whose text, after comment removal and case folding, contains
\* "rest day" yields a record with is_rest_day true, the fixed rest-day
\* description, and empty movements, scaling and stimulus, whatever else the
\* page holds.
C1_RestDayShortCircuit ==
    LET page_text == PageText IN
        (pc \in {"extracted", "parsed"} /\ Contains(page_text, <<"r","e","s","t"," ","d","a","y">>)) =>
            /\ content.is_rest_day
            /\ content.description = <<"R","e","s","t"," ","D","a","y"," ","-"," ","R","e","c","o","v","e","r","y"," ","a","n","d"," ","m","o","b","i","l","i","t","y"," ","w","o","r","k"," ","r","e","c","o","m","m","e","n","d","e","d">>
            /\ content.movements = <<>>
            /\ content.scaling = <<>>
            /\ content.stimulus = <<>>
            /\ pc = "parsed" =>
                  /\ workout.is_rest_day
                  /\ workout.description = content.description
                  /\ workout.movements = <<>>
                  /\ workout.scaling = <<>>
                  /\ workout.stimulus = <<>>

\* C1 witness: a rest-day record from a page that also holds a workout
\* start indicator, a movement line, and scaling and stimulus sections
C1_Witness ==
    LET page_text == PageText IN
        /\ pc = "parsed"
        /\ workout.is_rest_day
        /\ Contains(page_text, <<"r","e","s","t"," ","d","a","y">>)
        /\ Contains(page_text, <<"f","o","r"," ","t","i","m","e",":","\n","2","1"," ","t","h","r","u","s","t","e","r","s">>)
        /\ Contains(page_text, <<"s","c","a","l","i","n","g",":">>)
        /\ Contains(page_text, <<"s","t","i","m","u","l","u","s",":">>)

\* C2: is_hero_workout is true exactly when the page is not a rest day, its
\* text holds a military-rank token and a memorial phrase, and holds none of
\* the reference-only phrases.
C2_HeroIff ==
    LET page_text == PageText IN
        pc = "parsed" =>
            (workout.is_hero_workout <=>
                /\ ~Contains(page_text, <<"r","e","s","t"," ","d","a","y">>)
                /\ \E n \in 1..Len(hero_indicators) : Contains(page_text, hero_indicators[n])
                /\ \E n \in 1..Len(hero_phrases) : Contains(page_text, hero_phrases[n])
                /\ ~Contains(page_text, <<"r","e","m","i","n","i","s","c","e","n","t"," ","o","f"," ","a"," ","h","e","r","o"," ","w","o","r","k","o","u","t">>)
                /\ ~Contains(page_text, <<"s","i","m","i","l","a","r"," ","t","o">>)
                /\ ~Contains(page_text, <<"l","i","k","e"," ","t","h","e"," ","h","e","r","o"," ","w","o","r","k","o","u","t">>))

\* C2 witness: rank and memorial tokens together with a reference-only
\* phrase, on a page that is not a rest day: not a hero workout
C2_Witness ==
    LET page_text == PageText IN
        /\ pc = "parsed"
        /\ ~workout.is_rest_day
        /\ Contains(page_text, <<"s","g","t",".">>)
        /\ Contains(page_text, <<"k","i","l","l","e","d"," ","i","n"," ","a","c","t","i","o","n">>)
        /\ Contains(page_text, <<"s","i","m","i","l","a","r"," ","t","o">>)
        /\ ~workout.is_hero_workout

\* C3: in every record, is_hero_workout implies is_named_workout.
C3_HeroImpliesNamed ==
    /\ pc \in {"extracted", "parsed"} => (content.is_hero_workout => content.is_named_workout)
    /\ pc = "parsed" => (workout.is_hero_workout => workout.is_named_workout)

\* C3 witness: a hero workout on a page without any title candidate
C3_Witness ==
    /\ pc = "parsed"
    /\ workout.is_hero_workout
    /\ workout.is_named_workout
    /\ \A i \in 1..Len(page) : page[i].tag = "p"

\* A page without bold text and without headings has no title candidate
NoTitleCandidate == PotentialTitles(Cleaned(page)) = <<>>

\* C4 as stated: without a title candidate the title is the date code and
\* is_named_workout is false.
C4_Original_NoCandidateNotNamed ==
    (pc = "parsed" /\ NoTitleCandidate) =>
        (workout.title = date_str /\ ~workout.is_named_workout)

\* C4 as amended: without a title candidate the title is the date code, and
\* is_named_workout is true exactly when the page is a hero workout.
C4_NoCandidateNamedIffHero ==
    (pc = "parsed" /\ NoTitleCandidate) =>
        /\ workout.title = date_str
        /\ workout.title = workout.date_code
        /\ workout.is_named_workout = workout.is_hero_workout

\* C4 witness: a hero workout without any title candidate: the title is the
\* date code and the record is named all the same
C4_Witness ==
    /\ pc = "parsed"
    /\ NoTitleCandidate
    /\ ~workout.is_rest_day
    /\ workout.is_hero_workout
    /\ workout.is_named_workout
    /\ workout.description # <<>>
    /\ workout.title = date_str

\* The position of the first occurrence of x in seq (0 when absent)
FirstIndex(seq, x) ==
    LET at == {k \in 1..Len(seq) : seq[k] = x}
    IN  IF at = {} THEN 0 ELSE CHOOSE k \in at : \A j \in at : k <= j

\* C5: movements has at most 8 entries, no duplicates, and lists strings
\* found in the collected body lines in the order of their first occurrence.
C5_MovementsBoundedDistinctOrdered ==
    pc = "parsed" =>
        LET found == AllMovements(WorkoutLines(PageLines))
            movements == workout.movements
        IN  /\ Len(movements) <= 8
            /\ \A i, j \in 1..Len(movements) : i # j => movements[i] # movements[j]
            /\ \A i \in 1..Len(movements) : FirstIndex(found, movements[i]) > 0
            /\ \A i, j \in 1..Len(movements) :
                   i < j => FirstIndex(found, movements[i]) < FirstIndex(found, movements[j])
            /\ \A k \in 1..Len(found) :
                   \/ \E i \in 1..Len(movements) : movements[i] = found[k]
                   \/ Len(movements) = 8

\* C5 witness: more than 8 distinct movement strings were found, one of the
\* first 8 more than once, and 8 are listed
C5_Witness ==
    /\ pc = "parsed"
    /\ LET found == AllMovements(WorkoutLines(PageLines))
       IN  /\ Cardinality({found[k] : k \in 1..Len(found)}) > 8
           /\ \E i, j \in 1..8 : i < j /\ found[i] = found[j]
    /\ Len(workout.movements) = 8

\* The number of lines of a text: one more than its line breaks, none if empty
LineCount(text) ==
    IF text = <<>> THEN 0
    ELSE 1 + Cardinality({i \in 1..Len(text) : text[i] = "\n"})

\* C6: description has at most 10 lines; on a page that is not a rest day it
\* is the first 10 collected body lines joined by line breaks, and it is
\* empty when no line holds a workout-start indicator.
C6_DescriptionAtMostTenLines ==
    pc = "parsed" =>
        LET lines == PageLines
            workout_lines == WorkoutLines(lines)
            n == IF Len(workout_lines) < 10 THEN Len(workout_lines) ELSE 10
        IN  /\ LineCount(workout.description) <= 10
            /\ ~workout.is_rest_day =>
                  /\ LineCount(workout.description) = n
                  /\ n > 0 => SplitLines(workout.description) = SubSeq(workout_lines, 1, n)
                  /\ (\A i \in 1..Len(lines) :
                         \A k \in 1..Len(workout_indicators) :
                             ~Contains(Lower(lines[i]), workout_indicators[k]))
                         => workout.description = <<>>

\* C6 witness: more than 10 body lines were collected and 10 are kept
C6_Witness ==
    /\ pc = "parsed"
    /\ Len(WorkoutLines(PageLines)) > 10
    /\ LineCount(workout.description) = 10

\* The bold texts of soup that qualify as candidates by length and by
\* holding no promotional phrase, as positions in soup
QualifyingBolds(soup) ==
    {i \in 1..Len(soup) :
        /\ soup[i].tag = "strong"
        /\ LET text == Strip(soup[i].text)
           IN  /\ Len(text) > 5
               /\ Len(text) <= 50
               /\ LET low == Lower(text)
                  IN  \A n \in 1..Len(skip_phrases) : ~Contains(low, skip_phrases[n])}

\* Those matching event\s+\d+, and the fully uppercase ones that do not
EventBolds(soup) ==
    {i \in QualifyingBolds(soup) : MatchesEventNumber(Lower(Strip(soup[i].text)))}
UppercaseBolds(soup) ==
    {i \in QualifyingBolds(soup) :
        /\ ~MatchesEventNumber(Lower(Strip(soup[i].text)))
        /\ IsUpper(Strip(soup[i].text))}

\* C7: on a page that is not a rest day and has both a qualifying "Event N"
\* bold text and a qualifying generic uppercase bold text, the title is an
\* "Event N" bold text, whichever of the two comes first.
C7_EventBeforeUppercase ==
    (pc = "parsed" /\ ~workout.is_rest_day) =>
        LET soup == Soup
            events == EventBolds(soup)
            uppers == UppercaseBolds(soup)
        IN  (events # {} /\ uppers # {}) =>
                /\ \E i \in events : workout.title = Strip(soup[i].text)
                /\ \A i \in uppers : workout.title # Strip(soup[i].text)
                /\ workout.is_named_workout

\* C7 witness: the uppercase bold text comes first in the document and the
\* title is the "Event N" text after it
C7_Witness ==
    /\ pc = "parsed"
    /\ LET soup == Soup
       IN  \E u \in UppercaseBolds(soup) : \E e \in EventBolds(soup) :
               u < e /\ workout.title = Strip(soup[e].text)

\* text.split('\n\n'): the paragraphs of a text
RECURSIVE SplitParagraphs(_)
SplitParagraphs(text) ==
    LET at == {i \in 1..(Len(text) - 1) : text[i] = "\n" /\ text[i + 1] = "\n"}
    IN  IF at = {} THEN <<text>>
        ELSE LET i == CHOOSE i \in at : \A j \in at : i <= j
             IN  <<SubSeq(text, 1, i - 1)>>
                     \o SplitParagraphs(SubSeq(text, i + 2, Len(text)))

\* The lines holding an option header whose block has a collected body
\* line, and the block of such a line: the header line and its body lines
OptionHeaders(option_type) ==
    {i \in 1..Len(PageLines) :
        /\ Contains(Lower(PageLines[i]), option_type)
        /\ SectionBody(PageLines, i, option_stop_markers) # <<>>}

BlockAt(i) ==
    Join(<<PageLines[i]>> \o SectionBody(PageLines, i, option_stop_markers), <<"\n">>)

\* C8 as stated: with an Intermediate and a Beginner block, each with a body
\* line, scaling holds both blocks as paragraphs, in document order.
C8_Original_BlocksInDocumentOrder ==
    (pc = "parsed" /\ ~workout.is_rest_day) =>
        LET parts == SplitParagraphs(workout.scaling)
        IN  \A i \in OptionHeaders(<<"i","n","t","e","r","m","e","d","i","a","t","e"," ","o","p","t","i","o","n",":">>) :
            \A b \in OptionHeaders(<<"b","e","g","i","n","n","e","r"," ","o","p","t","i","o","n",":">>) :
                i # b =>
                    \E x, y \in 1..Len(parts) :
                        /\ parts[x] = BlockAt(i)
                        /\ parts[y] = BlockAt(b)
                        /\ (x < y) = (i < b)

\* C8 as amended: scaling holds both blocks as paragraphs (separated by a
\* blank line), the Intermediate block before the Beginner block whatever
\* their order in the document.
C8_IntermediateBeforeBeginner ==
    (pc = "parsed" /\ ~workout.is_rest_day) =>
        LET parts == SplitParagraphs(workout.scaling)
        IN  \A i \in OptionHeaders(<<"i","n","t","e","r","m","e","d","i","a","t","e"," ","o","p","t","i","o","n",":">>) :
            \A b \in OptionHeaders(<<"b","e","g","i","n","n","e","r"," ","o","p","t","i","o","n",":">>) :
                \E x, y \in 1..Len(parts) :
                    /\ parts[x] = BlockAt(i)
                    /\ parts[y] = BlockAt(b)
                    /\ x < y

\* C8 witness: the Beginner block comes first in the document and second in
\* the scaling field
C8_Witness ==
    /\ pc = "parsed"
    /\ ~workout.is_rest_day
    /\ \E i \in OptionHeaders(<<"i","n","t","e","r","m","e","d","i","a","t","e"," ","o","p","t","i","o","n",":">>) :
       \E b \in OptionHeaders(<<"b","e","g","i","n","n","e","r"," ","o","p","t","i","o","n",":">>) :
           /\ b < i
           /\ workout.scaling = BlockAt(i) \o <<"\n","\n">> \o BlockAt(b)

\* C11 as stated: on a rest-day page that has a qualifying title candidate
\* the record's title is that candidate and is_named_workout is true.
C11_Original_RestDayKeepsTitle ==
    LET page_text == PageText
        potential_titles == PotentialTitles(Soup)
    IN  (pc = "parsed" /\ Contains(page_text, <<"r","e","s","t"," ","d","a","y">>)
                       /\ potential_titles # <<>>) =>
            /\ workout.title = potential_titles[1]
            /\ workout.is_named_workout

\* C11 as amended: on a rest-day page the title extraction is skipped as
\* well: the title is the date code and is_named_workout and is_hero_workout
\* are false, whatever title candidates the page holds; the date, the date
\* code and the timestamp are filled in as for any other page.
C11_RestDaySkipsTitle ==
    LET page_text == PageText IN
        (pc = "parsed" /\ Contains(page_text, <<"r","e","s","t"," ","d","a","y">>)) =>
            /\ workout.title = date_str
            /\ ~workout.is_named_workout
            /\ ~workout.is_hero_workout
            /\ workout.date_code = date_str
            /\ workout.date = FormatDate(date_str)
            /\ workout.scraped_at = now

\* C11 witness: a rest-day record from a page that holds a qualifying bold
\* title candidate; the title is the date code all the same
C11_Witness ==
    LET soup == Soup IN
        /\ pc = "parsed"
        /\ workout.is_rest_day
        /\ \E i \in 1..Len(soup) : soup[i].tag = "strong"
        /\ PotentialTitles(soup) # <<>>
        /\ PotentialTitles(soup)[1] = <<"M","U","R","P","H"," ","H","E","R","O">>
        /\ workout.title = date_str
        /\ ~workout.is_named_workout

\* The trimmed bold texts of soup, and its trimmed heading texts
BoldTexts(soup) ==
    {Strip(soup[i].text) : i \in {k \in 1..Len(soup) : soup[k].tag = "strong"}}
HeadingTexts(soup) ==
    {Strip(soup[i].text) : i \in {k \in 1..Len(soup) : soup[k].tag = "h2"}}

\* C12 as stated: a bold text of length 5 or less, or of length 50 or more,
\* is never the title, unless a heading holds the same text.
C12_Original_BoldLengthBelowFifty ==
    pc = "parsed" =>
        LET soup == Soup
            headings == HeadingTexts(soup)
        IN  \A text \in BoldTexts(soup) :
                ((Len(text) <= 5 \/ Len(text) >= 50) /\ text \notin headings)
                    => workout.title # text

\* C12 as amended: a bold text is eligible only if its trimmed length is
\* strictly greater than 5 and at most 50: a bold text of length 5 or less,
\* or of length 51 or more, is never the title, unless a heading holds the
\* same text; a title that only a bold text supplies has 6 to 50 characters.
C12_BoldLengthSixToFifty ==
    pc = "parsed" =>
        LET soup == Soup
            bolds == BoldTexts(soup)
            headings == HeadingTexts(soup)
        IN  /\ \A text \in bolds :
                   ((Len(text) <= 5 \/ Len(text) >= 51) /\ text \notin headings)
                       => workout.title # text
            /\ (workout.title \in bolds /\ workout.title \notin headings)
                   => (Len(workout.title) > 5 /\ Len(workout.title) <= 50)

\* C12 witness: the page holds bold texts of 5, of 50 and of 51 characters,
\* and the title is the one of 50
C12_Witness ==
    LET bolds == BoldTexts(Soup) IN
        /\ pc = "parsed"
        /\ \E text \in bolds : Len(text) = 5
        /\ \E text \in bolds : Len(text) = 51
        /\ workout.title \in bolds
        /\ Len(workout.title) = 50
        /\ workout.is_named_workout

-----------------------------------------------------------------------------
(* Properties of the CSV log and of main                                   *)

\* A log_workout call that reported success
LoggedOk == pc = "parsed" /\ pc' = "logged" /\ csv_success'

\* The rows of other date codes, in file order
OtherRows(rows, date_code) == SelectSeq(rows, LAMBDA r : r.date_code # date_code)

\* After the call the log holds the record under its date code (one more row
\* when the key was absent, the same number when it was present), every row
\* of that date code has the record's fields, and the other rows are as before
Upserted ==
    /\ \E i \in 1..Len(csv_rows') :
           /\ csv_rows'[i].date_code = workout.date_code
           /\ csv_rows'[i].title = workout.title
           /\ csv_rows'[i].scraped_at = workout.scraped_at
           /\ csv_rows'[i] = to_csv_row(workout)
    /\ \A i \in 1..Len(csv_rows') :
           csv_rows'[i].date_code = workout.date_code =>
               csv_rows'[i].scraped_at = workout.scraped_at
    /\ OtherRows(csv_rows', workout.date_code) = OtherRows(csv_rows, workout.date_code)
    /\ Len(csv_rows') =
           IF \E i \in 1..Len(csv_rows) : csv_rows[i].date_code = workout.date_code
           THEN Len(csv_rows) ELSE Len(csv_rows) + 1

RecordExtracted == now > 0 /\ workout.scraped_at = now

\* C10: in a run that extracted a record the log sink is called first and
\* the notification sink second, whatever the log sink returned; the
\* notification leaves the log and csv_success as they were; and the final
\* message tells the four outcomes apart.
C10_BothSinksAttempted ==
    /\ [][pc = "parsed" => (pc' = "logged" /\ attempts' = <<"csv">>)]_vars
    /\ [](pc = "logged" => ENABLED Send)
    /\ [][pc = "logged" =>
             /\ pc' = "sent"
             /\ attempts' = <<"csv", "trmnl">>
             /\ csv_rows' = csv_rows
             /\ csv_success' = csv_success]_vars
    /\ []((pc = "done" /\ RecordExtracted) =>
             /\ attempts = <<"csv", "trmnl">>
             /\ (outcome = "Successfully processed workout")
                    = (csv_success /\ trmnl_success)
             /\ (outcome = "CSV logged successfully but TRMNL update failed")
                    = (csv_success /\ ~trmnl_success)
             /\ (outcome = "TRMNL updated successfully but CSV logging failed")
                    = (~csv_success /\ trmnl_success)
             /\ (outcome = "Both CSV logging and TRMNL update failed")
                    = (~csv_success /\ ~trmnl_success))

\* C10 witness: the log write failed, the notification was still sent and
\* accepted, and the run reported exactly that
C10_Witness ==
    /\ pc = "done"
    /\ RecordExtracted
    /\ ~csv_success
    /\ trmnl_success
    /\ attempts = <<"csv", "trmnl">>
    /\ outcome = "TRMNL updated successfully but CSV logging failed"

\* The log holds at most one row for each date code
OneRowPerDateCode ==
    \A i, j \in 1..Len(csv_rows) :
        csv_rows[i].date_code = csv_rows[j].date_code => i = j

\* A log_workout call with overwrite unset for a date code the log holds
SkippingCall ==
    /\ pc = "parsed" /\ pc' = "logged"
    /\ ~overwrite_csv
    /\ \E i \in 1..Len(csv_rows) : csv_rows[i].date_code = workout.date_code

\* C13: starting from a log that holds only the header, after any sequence
\* of log_workout calls the log holds at most one row per date code; and a
\* call with overwrite unset for a date code already in the log leaves every
\* row unchanged and reports success.
C13_AtMostOneRowPerDateCode ==
    /\ []OneRowPerDateCode
    /\ [][SkippingCall => (csv_rows' = csv_rows /\ csv_success')]_vars

=============================================================================
